---- MODULE Spec2Model ----
(***************************************************************************)
(* Icegrams, src/icegrams/trie.cpp: the read side of the n-gram store.     *)
(* The byte buffer is immutable; every exported function is a decoder      *)
(* over it.  The decoders are operators translated from the C++ source,    *)
(* the Trie walk is a state machine (one action per loop iteration), and   *)
(* each specification draws the buffer from a bounded set of sections      *)
(* laid out as the source reads them and then applies the decoders.        *)
(*                                                                         *)
(* Widths.  TLC's integers stop at 2^31-1, so a C value that can reach     *)
(* bit 31 or above (a node header, NOT_FOUND, a UINT64) is a tuple of      *)
(* 16-bit limbs, least significant first: 2 limbs for UINT32, 4 for        *)
(* UINT64, with arithmetic modulo 2^32 and 2^64.  Indices, offsets and     *)
(* counts that stay small in every modelled buffer are plain naturals.     *)
(***************************************************************************)
EXTENDS Integers, Sequences, FiniteSets, TLC

VARIABLES
    buf,              \* the memory-mapped byte buffer (never written)
    src,              \* what the writer stored in buf (ghost, for the claims)
    call,             \* the exported call in progress, [op |-> "idle"] if none
    ret,              \* the value(s) the call returned
    pc,               \* Trie::lookup: position of the walk
    m_pbWord,         \* Trie::m_pbWord: the NUL-terminated query word
    m_nWordLen,       \* Trie::m_nWordLen
    nNodeOffset,      \* Trie::lookup: current node
    nHdr,             \* Trie::lookup: its header (UINT32 limbs)
    nFragmentIndex,   \* Trie::lookup: bytes of the word consumed
    nLo,              \* Trie::lookup: child binary search, lower bound
    nHi,              \* Trie::lookup: child binary search, upper bound
    nOffsets          \* Trie::lookup: offsets of the current node's children

vars == <<buf, src, call, ret, pc, m_pbWord, m_nWordLen, nNodeOffset, nHdr,
          nFragmentIndex, nLo, nHi, nOffsets>>

trieVars == <<pc, m_pbWord, m_nWordLen, nNodeOffset, nHdr,
              nFragmentIndex, nLo, nHi, nOffsets>>

-----------------------------------------------------------------------------
(* Bit operations on naturals.                                             *)

RECURSIVE BitAnd(_, _)
BitAnd(a, b) ==
    IF a = 0 \/ b = 0 THEN 0
    ELSE (a % 2) * (b % 2) + 2 * BitAnd(a \div 2, b \div 2)

RECURSIVE BitOr(_, _)
BitOr(a, b) ==
    IF a = 0 THEN b
    ELSE IF b = 0 THEN a
    ELSE (IF a % 2 = 1 \/ b % 2 = 1 THEN 1 ELSE 0) + 2 * BitOr(a \div 2, b \div 2)

RECURSIVE BitXor(_, _)
BitXor(a, b) ==
    IF a = 0 THEN b
    ELSE IF b = 0 THEN a
    ELSE ((a + b) % 2) + 2 * BitXor(a \div 2, b \div 2)

(* Fixed-width unsigned values as 16-bit limbs, least significant first.   *)

RECURSIVE LFromNat(_, _)
LFromNat(v, k) ==
    IF k = 0 THEN << >> ELSE <<v % 2^16>> \o LFromNat(v \div 2^16, k - 1)

U32(v) == LFromNat(v, 2)
U64(v) == LFromNat(v, 4)

LOr(x, y) == [i \in 1..Len(x) |-> BitOr(x[i], y[i])]
LAnd(x, y) == [i \in 1..Len(x) |-> BitAnd(x[i], y[i])]
LNot(x) == [i \in 1..Len(x) |-> 2^16 - 1 - x[i]]

RECURSIVE LCarry(_, _, _)
\* carry into limb i of x + y
LCarry(x, y, i) ==
    IF i = 1 THEN 0 ELSE (x[i-1] + y[i-1] + LCarry(x, y, i - 1)) \div 2^16

\* x + y modulo 2^(16 * Len(x))
LAdd(x, y) == [i \in 1..Len(x) |-> (x[i] + y[i] + LCarry(x, y, i)) % 2^16]

\* x - y modulo 2^(16 * Len(x))
LSub(x, y) == LAdd(LAdd(x, LNot(y)), LFromNat(1, Len(x)))

RECURSIVE LShl(_, _)
\* x << k, the bits shifted out of the top limb are lost
LShl(x, k) ==
    IF k >= 16
    THEN LShl([i \in 1..Len(x) |-> IF i = 1 THEN 0 ELSE x[i-1]], k - 16)
    ELSE [i \in 1..Len(x) |->
            ((x[i] * 2^k) % 2^16)
            + (IF i = 1 THEN 0 ELSE x[i-1] \div 2^(16 - k))]

\* zero extension UINT32 -> UINT64
LWiden(x) == x \o <<0, 0>>

RECURSIVE LGreater(_, _, _)
\* x > y, comparing limbs i..1
LGreater(x, y, i) ==
    IF i = 0 THEN FALSE
    ELSE IF x[i] # y[i] THEN x[i] > y[i]
    ELSE LGreater(x, y, i - 1)

LGt(x, y) == LGreater(x, y, Len(x))

(* Reads of the mapped buffer; offsets count from 0.                       *)

ByteAt(mem, off) == mem[off + 1]

\* little-endian UINT16 and UINT32 that stay below 2^31 in every buffer here
U16At(mem, off) == ByteAt(mem, off) + 2^8 * ByteAt(mem, off + 1)
U32At(mem, off) == U16At(mem, off) + 2^16 * U16At(mem, off + 2)

\* Trie::uintAt: the full UINT32, as limbs
uintAt(mem, off) == <<U16At(mem, off), U16At(mem, off + 2)>>

NOT_FOUND == <<2^16 - 1, 2^16 - 1>>

RECURSIVE BIT_COUNT(_)
\* the table _BIT_COUNT: entry b is the number of 1-bits of the byte b
BIT_COUNT(b) == IF b = 0 THEN 0 ELSE (b % 2) + BIT_COUNT(b \div 2)

-----------------------------------------------------------------------------
(* bitselect and retrieve.                                                 *)

\* bMask <<= 1; if (!bMask) { pb++; bMask = 0x01; }  as <<pb, bMask>>
nextBit(p, bMask) ==
    IF (2 * bMask) % 2^8 = 0 THEN <<p + 1, 1>> ELSE <<p, 2 * bMask>>

RECURSIVE bitselectLoopOnes(_, _, _, _, _)
\* a variant of bitselectLoop that does not count the 0-bits it skips
bitselectLoopOnes(mem, p, bMask, n, nIx) ==
    IF n = 0 THEN nIx
    ELSE IF BitAnd(ByteAt(mem, p), bMask) = 0
         THEN LET nx == nextBit(p, bMask)
              IN  bitselectLoopOnes(mem, nx[1], nx[2], n, nIx)
    ELSE IF n - 1 # 0
         THEN LET nx == nextBit(p, bMask)
              IN  bitselectLoopOnes(mem, nx[1], nx[2], n - 1, nIx + 1)
    ELSE nIx

RECURSIVE bitselectLoop(_, _, _, _, _)
\* one step of either loop of bitselect: skip a 0 bit, or count a 1 bit
\* and skip it unless it is the n-th
bitselectLoop(mem, p, bMask, n, nIx) ==
    IF n = 0 THEN nIx
    ELSE IF BitAnd(ByteAt(mem, p), bMask) = 0
         THEN LET nx == nextBit(p, bMask)
              IN  bitselectLoop(mem, nx[1], nx[2], n, nIx + 1)
    ELSE IF n - 1 # 0
         THEN LET nx == nextBit(p, bMask)
              IN  bitselectLoop(mem, nx[1], nx[2], n - 1, nIx + 1)
    ELSE nIx

bitselect(mem, pb, n) == bitselectLoop(mem, pb, 1, n, 0)

\* UB_SHIFT: the values a build gives the int expression 1 << 32, which
\* C++ leaves undefined: 1 where the shift count is taken modulo 32 (x86),
\* 0 where all bits are shifted out
UB_SHIFT == {0, 1}

\* (1 << n) - 1 as UINT32, ub being the build's value of 1 << 32
lowMask(n, ub) ==
    LSub(IF n < 32 THEN LShl(U32(1), n) ELSE U32(ub), U32(1))

RECURSIVE retrieveLoop(_, _, _, _, _)
\* while (nBits < n) { nBuf |= *++pb << nBits; nBits += 8; }
retrieveLoop(mem, p, nBuf, nBits, n) ==
    IF nBits < n
    THEN retrieveLoop(mem, p + 1,
                      LOr(nBuf, LShl(U32(ByteAt(mem, p + 1)), nBits)),
                      nBits + 8, n)
    ELSE nBuf

retrieve(mem, pb, nStart, n, ub) ==
    IF n = 0 THEN U32(0)
    ELSE LET p == pb + nStart \div 8
             nBuf == U32(ByteAt(mem, p) \div 2^(nStart % 8))
             nBits == 8 - (nStart % 8)
         IN  LAnd(retrieveLoop(mem, p, nBuf, nBits, n), lowMask(n, ub))

-----------------------------------------------------------------------------
(* Elias-Fano lists: struct MonoListHeader is n (UINT32) at 0, nLb and nHb *)
(* (UINT16) at 4 and 6, anHbufIndex at 8.  pb is the offset of the list    *)
(* in mem.                                                                 *)

RECURSIVE lowBitsLoop(_, _, _, _, _, _)
\* while (1) { nBits |= pb[nBy] << nBitCount; nBitCount += 8;
\*             if (nBitCount >= nEnd) break; nBy += 1; }
lowBitsLoop(mem, pb, nBy, nBits, nBitCount, nEnd) ==
    LET b == BitOr(nBits, ByteAt(mem, pb + nBy) * 2^nBitCount)
    IN  IF nBitCount + 8 >= nEnd
        THEN [nBits |-> b, nBitCount |-> nBitCount + 8, nBy |-> nBy]
        ELSE lowBitsLoop(mem, pb, nBy + 1, b, nBitCount + 8, nEnd)

\* the list's header fields and the offset of its low-bits stream
monoHeader(mem, pb, nQuantumSize) ==
    LET n == U32At(mem, pb)
        nHb == U16At(mem, pb + 6)
        nHbufSize == IF nHb # 0 THEN ((n - 1) \div nQuantumSize) * 4 ELSE 0
    IN  [n |-> n, nLb |-> U16At(mem, pb + 4), nHb |-> nHb,
         pb |-> pb + 8 + nHbufSize]

\* a variant of highStart that takes the zero count from the bit position
\* itself, not from the start of its byte
highStartUnaligned(mem, pb, h, nQuantumSize, nIndex) ==
    LET nBy == (h.n * h.nLb + 7) \div 8
    IN  IF nIndex >= nQuantumSize
        THEN LET nQ == nIndex \div nQuantumSize
                 nHbit == U32At(mem, pb + 8 + 4 * (nQ - 1))
             IN  [nBy |-> nBy + nHbit \div 8,
                  bMask |-> BitXor(255, 2^(nHbit % 8) - 1),
                  nHpos |-> nIndex - nQ * nQuantumSize,
                  nHighPart |-> LWiden(LSub(U32(nHbit),
                                            U32(nQ * nQuantumSize)))]
        ELSE [nBy |-> nBy, bMask |-> 255, nHpos |-> nIndex,
              nHighPart |-> U64(0)]

\* where the scan of the high bits starts: the first byte of the stream,
\* or the byte the quantum index names, with the zero count taken in
\* UINT32 arithmetic and then widened to the UINT64 nHighPart
highStart(mem, pb, h, nQuantumSize, nIndex) ==
    LET nBy == (h.n * h.nLb + 7) \div 8
    IN  IF nIndex >= nQuantumSize
        THEN LET nQ == nIndex \div nQuantumSize
                 nHbit == U32At(mem, pb + 8 + 4 * (nQ - 1))
             IN  [nBy |-> nBy + nHbit \div 8,
                  bMask |-> BitXor(255, 2^(nHbit % 8) - 1),
                  nHpos |-> nIndex - nQ * nQuantumSize,
                  nHighPart |-> LWiden(LSub(U32(nHbit - (nHbit % 8)),
                                            U32(nQ * nQuantumSize)))]
        ELSE [nBy |-> nBy, bMask |-> 255, nHpos |-> nIndex,
              nHighPart |-> U64(0)]

RECURSIVE highScan(_, _, _, _, _, _)
\* lookupMonotonic: skip the bytes of the high stream that hold fewer
\* 1-bits than are left to skip
highScan(mem, pb, nBy, bMask, nHpos, nHighPart) ==
    LET nBcnt == BIT_COUNT(BitAnd(ByteAt(mem, pb + nBy), bMask))
    IN  IF nHpos < nBcnt
        THEN [nBy |-> nBy, bMask |-> bMask, nHpos |-> nHpos,
              nHighPart |-> nHighPart]
        ELSE highScan(mem, pb, nBy + 1, 255, nHpos - nBcnt,
                      LAdd(nHighPart, U64(8 - nBcnt)))

RECURSIVE bitWalk(_, _, _)
\* walk the bits of the byte nBy from the least significant one up to the
\* nHpos-th 1-bit, counting the zeroes passed into nHighPart
bitWalk(nBy, nHpos, nHighPart) ==
    IF nBy % 2 = 1
    THEN IF nHpos = 0 THEN nHighPart
         ELSE bitWalk(nBy \div 2, nHpos - 1, nHighPart)
    ELSE bitWalk(nBy \div 2, nHpos, LAdd(nHighPart, U64(1)))

lookupMonotonic(mem, pb0, nQuantumSize, nIndex) ==
    LET h == monoHeader(mem, pb0, nQuantumSize)
        pb == h.pb
        nLowBitIndex == (nIndex * h.nLb) % 8
        low == lowBitsLoop(mem, pb, (nIndex * h.nLb) \div 8, 0, 0,
                           h.nLb + nLowBitIndex)
        nLowPart == (low.nBits \div 2^nLowBitIndex) % 2^(h.nLb)
    IN  IF h.nHb = 0 THEN U64(nLowPart)
        ELSE LET s == highStart(mem, pb0, h, nQuantumSize, nIndex)
                 t == highScan(mem, pb, s.nBy, s.bMask, s.nHpos, s.nHighPart)
                 nHighPart == bitWalk(BitAnd(ByteAt(mem, pb + t.nBy), t.bMask),
                                      t.nHpos, t.nHighPart)
             IN  LOr(LShl(nHighPart, h.nLb), U64(nLowPart))

RECURSIVE lowBits2Loop(_, _, _, _, _, _)
\* while (nBitCount < nLb) { nBits |= pb[++nBy] << nBitCount; nBitCount += 8; }
lowBits2Loop(mem, pb, nBy, nBits, nBitCount, nLb) ==
    IF nBitCount < nLb
    THEN lowBits2Loop(mem, pb, nBy + 1,
                      BitOr(nBits, ByteAt(mem, pb + nBy + 1) * 2^nBitCount),
                      nBitCount + 8, nLb)
    ELSE nBits

RECURSIVE pairScan(_, _, _, _, _, _, _)
\* lookupPairMonotonic: either of its two byte scans; nBcnt is carried from
\* one iteration (and from the first scan) to the next
pairScan(mem, pb, nBy, bMask, nHpos, nHighPart, nBcnt) ==
    IF nHpos < nBcnt
    THEN [nBy |-> nBy, bMask |-> bMask, nHpos |-> nHpos,
          nHighPart |-> nHighPart, nBcnt |-> nBcnt]
    ELSE pairScan(mem, pb, nBy + 1, 255, nHpos - nBcnt,
                  LAdd(nHighPart, U64(8 - nBcnt)),
                  BIT_COUNT(ByteAt(mem, pb + nBy + 1)))

\* the pair <<*pn1, *pn2>>; pn1 and pn2 are never null here
lookupPairMonotonic(mem, pb0, nQuantumSize, nIndex) ==
    LET h == monoHeader(mem, pb0, nQuantumSize)
        pb == h.pb
        nLowBitIndex == (nIndex * h.nLb) % 8
        low == lowBitsLoop(mem, pb, (nIndex * h.nLb) \div 8, 0, 0,
                           h.nLb + nLowBitIndex)
        nBits1 == low.nBits \div 2^nLowBitIndex
        nLowPart1 == nBits1 % 2^(h.nLb)
        nBits2 == lowBits2Loop(mem, pb, low.nBy, nBits1 \div 2^(h.nLb),
                               low.nBitCount - (nLowBitIndex + h.nLb), h.nLb)
        nLowPart2 == nBits2 % 2^(h.nLb)
    IN  IF h.nHb = 0 THEN <<U64(nLowPart1), U64(nLowPart2)>>
        ELSE LET s == highStart(mem, pb0, h, nQuantumSize, nIndex)
                 t1 == pairScan(mem, pb, s.nBy, s.bMask, s.nHpos, s.nHighPart,
                          BIT_COUNT(BitAnd(ByteAt(mem, pb + s.nBy), s.bMask)))
                 t2 == pairScan(mem, pb, t1.nBy, t1.bMask, t1.nHpos + 1,
                                t1.nHighPart, t1.nBcnt)
                 nHighPart1 == bitWalk(BitAnd(ByteAt(mem, pb + t1.nBy), t1.bMask),
                                       t1.nHpos, t1.nHighPart)
                 nHighPart2 == bitWalk(BitAnd(ByteAt(mem, pb + t2.nBy), t2.bMask),
                                       t2.nHpos, t2.nHighPart)
             IN  <<LOr(LShl(nHighPart1, h.nLb), U64(nLowPart1)),
                   LOr(LShl(nHighPart2, h.nLb), U64(nLowPart2))>>

\* x >> 1 on limbs
LHalf(x) ==
    [i \in 1..Len(x) |->
        x[i] \div 2 + (IF i < Len(x) THEN (x[i + 1] % 2) * 2^15 ELSE 0)]

\* the value of a UINT32 below 2^31
LNat(x) == x[1] + 2^16 * x[2]

\* a variant of midpoint whose sum is kept to 31 bits
midpoint31(nP1, nP2) ==
    LET nSum == LAdd(U32(nP1), U32(nP2))
    IN  LNat(LHalf(<<nSum[1], nSum[2] % 2^15>>))

\* UINT nMid = (nP1 + nP2) / 2: the sum is taken modulo 2^32
midpoint(nP1, nP2) == LNat(LHalf(LAdd(U32(nP1), U32(nP2))))

RECURSIVE searchMonotonic(_, _, _, _, _, _)
\* binary search for the UINT64 n in [nP1, nP2)
searchMonotonic(mem, pb, nQuantumSize, nP1, nP2, n) ==
    IF nP1 >= nP2 THEN NOT_FOUND
    ELSE LET nMid == midpoint(nP1, nP2)
             nThis == lookupMonotonic(mem, pb, nQuantumSize, nMid)
         IN  IF nThis = n THEN U32(nMid)
             ELSE IF LGt(nThis, n)
                  THEN searchMonotonic(mem, pb, nQuantumSize, nP1, nMid, n)
             ELSE searchMonotonic(mem, pb, nQuantumSize, nMid + 1, nP2, n)

searchMonotonicPrefix(mem, pb, nQuantumSize, nP1, nP2, n) ==
    IF nP1 >= nP2 THEN NOT_FOUND
    ELSE searchMonotonic(mem, pb, nQuantumSize, nP1, nP2,
            IF nP1 # 0
            THEN LAdd(n, lookupMonotonic(mem, pb, nQuantumSize, nP1 - 1))
            ELSE n)

-----------------------------------------------------------------------------
(* Partitioned lists: struct PartitionListHeader is nChunks (UINT32) at 0  *)
(* and anChunkIndex at 4.                                                  *)

lookupPartition(mem, pb, nOuterQuantum, nInnerQuantum, nIndex) ==
    LET nQ == nIndex \div nOuterQuantum
        nR == nIndex % nOuterQuantum
        pbOuter == pb + 4 * (1 + U32At(mem, pb))
        pbInner == pb + U32At(mem, pb + 4 + 4 * nQ)
        nPrefix == IF nQ # 0
                   THEN lookupMonotonic(mem, pbOuter, nInnerQuantum, nQ - 1)
                   ELSE U64(0)
    IN  LAdd(nPrefix, lookupMonotonic(mem, pbInner, nInnerQuantum, nR))

\* the pair <<*pn1, *pn2>>
lookupPairPartition(mem, pb, nOuterQuantum, nInnerQuantum, nIndex) ==
    LET nR == nIndex % nOuterQuantum
    IN  IF nR = nOuterQuantum - 1
        THEN <<lookupPartition(mem, pb, nOuterQuantum, nInnerQuantum, nIndex),
               lookupPartition(mem, pb, nOuterQuantum, nInnerQuantum, nIndex + 1)>>
        ELSE LET nQ == nIndex \div nOuterQuantum
                 pbOuter == pb + 4 * (1 + U32At(mem, pb))
                 pbInner == pb + U32At(mem, pb + 4 + 4 * nQ)
                 nPrefix == IF nQ # 0
                            THEN lookupMonotonic(mem, pbOuter, nInnerQuantum, nQ - 1)
                            ELSE U64(0)
                 pn == lookupPairMonotonic(mem, pbInner, nInnerQuantum, nR)
             IN  <<LAdd(pn[1], nPrefix), LAdd(pn[2], nPrefix)>>

RECURSIVE searchPartition(_, _, _, _, _, _, _)
searchPartition(mem, pb, nOuterQuantum, nInnerQuantum, nP1, nP2, n) ==
    IF nP1 >= nP2 THEN NOT_FOUND
    ELSE LET nMid == midpoint(nP1, nP2)
             nThis == lookupPartition(mem, pb, nOuterQuantum, nInnerQuantum, nMid)
         IN  IF nThis = n THEN U32(nMid)
             ELSE IF LGt(nThis, n)
                  THEN searchPartition(mem, pb, nOuterQuantum, nInnerQuantum,
                                       nP1, nMid, n)
             ELSE searchPartition(mem, pb, nOuterQuantum, nInnerQuantum,
                                  nMid + 1, nP2, n)

searchPartitionPrefix(mem, pb, nOuterQuantum, nInnerQuantum, nP1, nP2, n) ==
    IF nP1 >= nP2 THEN NOT_FOUND
    ELSE searchPartition(mem, pb, nOuterQuantum, nInnerQuantum, nP1, nP2,
            IF nP1 # 0
            THEN LAdd(n, lookupPartition(mem, pb, nOuterQuantum, nInnerQuantum,
                                         nP1 - 1))
            ELSE n)

-----------------------------------------------------------------------------
(* The frequency section, as lookupFrequency walks it: numRanks (UINT16),  *)
(* the ranks (UINT16 each) from offset 2, the quantum index block at       *)
(* 2 * (numRanks + 1), the codeword bits and the start bits.               *)

\* a UINT32 known to be below 2^31, as a natural
LToNat(x) == x[1] + 2^16 * x[2]

RECURSIVE freqScan(_, _, _)
\* while (1) { nBcnt = _BIT_COUNT[*p]; if (nBcnt >= nSkip) break;
\*             p++; nSkip -= nBcnt; }   as <<p, nSkip>>
freqScan(mem, p, nSkip) ==
    LET nBcnt == BIT_COUNT(ByteAt(mem, p))
    IN  IF nBcnt >= nSkip THEN <<p, nSkip>>
        ELSE freqScan(mem, p + 1, nSkip - nBcnt)

\* a variant of freqSkip that does not count the 1-bits to the left of the
\* quantum's start bit in its byte
freqSkipWholeByte(mem, pnIndex, p, nQuantumSize, nIndex) ==
    LET nQ == nIndex \div nQuantumSize
    IN  IF nQ # 0
        THEN <<p + U32At(mem, pnIndex + 4 * (nQ - 1)) \div 8,
               nIndex - nQ * nQuantumSize>>
        ELSE <<p, nIndex>>

\* p and nSkip after the skip by quantum number
freqSkip(mem, pnIndex, p, nQuantumSize, nIndex) ==
    LET nQ == nIndex \div nQuantumSize
    IN  IF nQ # 0
        THEN LET nBcnt == U32At(mem, pnIndex + 4 * (nQ - 1))
                 q == p + nBcnt \div 8
                 bMask == 2^(nBcnt % 8) - 1
             IN  <<q, nIndex - (nQ * nQuantumSize
                                - BIT_COUNT(BitAnd(ByteAt(mem, q), bMask)))>>
        ELSE <<p, nIndex>>

\* a variant of freqOffsets that does not step past the codeword bytes
freqOffsetsNoCwSkip(mem, pb) ==
    LET nNumRanks == U16At(mem, pb)
        pnIndex == pb + 2 * (nNumRanks + 1)
        pCw == pnIndex + (1 + U32At(mem, pnIndex)) * 4
    IN  [pnRanks |-> pb + 2, pnIndex |-> pnIndex, pCw |-> pCw,
         pStart |-> pCw + 4]

\* the pointers lookupFrequency sets up: the rank table, the count of the
\* quantum index, the size of the codeword stream, the start bits
freqOffsets(mem, pb) ==
    LET nNumRanks == U16At(mem, pb)
        pnIndex == pb + 2 * (nNumRanks + 1)
        pCw == pnIndex + (1 + U32At(mem, pnIndex)) * 4
    IN  [pnRanks |-> pb + 2, pnIndex |-> pnIndex, pCw |-> pCw,
         pStart |-> pCw + 4 + U32At(mem, pCw)]

lookupFrequency(mem, pb, nQuantumSize, nIndex, ub) ==
    LET o == freqOffsets(mem, pb)
        pnRanks == o.pnRanks
        pnIndex == o.pnIndex
        nCwBytes == U32At(mem, o.pCw)
        pStart == o.pStart
        k == freqSkip(mem, pnIndex + 4, pStart, nQuantumSize, nIndex)
        t == freqScan(mem, k[1], k[2])
        p == t[1]
        nStart == bitselect(mem, p, t[2] + 1)
        nEnd == bitselect(mem, p, t[2] + 2)
        nLog2 == nEnd - nStart
        nCw == retrieve(mem, p - nCwBytes, nStart, nLog2, ub)
        nRank == LAdd(LSub(nCw, U32(2)), LShl(U32(1), nLog2))
    IN  U16At(mem, pnRanks + 2 * LToNat(nRank))

-----------------------------------------------------------------------------
(* The trie.  struct Header is abSignature[16] and nTrieOffset (UINT32).   *)
(* A node is its header word, then numChildren (BYTE) and the offset of    *)
(* the first child (UINT32) unless childless, then the NUL-terminated      *)
(* fragment unless single-character.                                       *)

\* nHdr & 0x80000000, nHdr & 0x40000000
isSingle(hdr) == LAnd(hdr, <<0, 2^15>>) # <<0, 0>>
isChildless(hdr) == LAnd(hdr, <<0, 2^14>>) # <<0, 0>>

\* (nHdr >> 23) & 0x7F
fragChar(hdr) == (hdr[2] \div 2^7) % 2^7

\* a variant of nodeValue that masks 24 bits
nodeValueWide(hdr) == LAnd(hdr, <<2^16 - 1, 2^8 - 1>>)

\* nHdr & 0x007FFFFF
nodeValue(hdr) == LAnd(hdr, <<2^16 - 1, 2^7 - 1>>)

RECURSIVE strlen(_, _)
strlen(mem, off) == IF ByteAt(mem, off) = 0 THEN 0 ELSE 1 + strlen(mem, off + 1)

childSize(mem, nOff) ==
    LET hdr == uintAt(mem, nOff)
        nChildrenSize == IF isChildless(hdr) THEN 0 ELSE 1 + 4
        nStrLen == IF isSingle(hdr) THEN 0
                   ELSE strlen(mem, nOff + 4 + nChildrenSize) + 1
    IN  4 + nChildrenSize + nStrLen

RECURSIVE matchLoop(_, _, _, _, _, _)
\* while (*pFrag && nFragmentIndex + iMatched < nWordLen &&
\*        *pFrag == m_pbWord[nFragmentIndex + iMatched]) { pFrag++; iMatched++; }
matchLoop(mem, word, nWordLen, pFrag, nFragIx, iMatched) ==
    IF /\ ByteAt(mem, pFrag) # 0
       /\ nFragIx + iMatched < nWordLen
       /\ ByteAt(mem, pFrag) = ByteAt(word, nFragIx + iMatched)
    THEN matchLoop(mem, word, nWordLen, pFrag + 1, nFragIx, iMatched + 1)
    ELSE <<pFrag, iMatched>>

\* a variant of matches that accepts a word ending inside the fragment
matchesPartial(mem, word, nWordLen, nNodeOff, nFragIx) ==
    LET hdr == uintAt(mem, nNodeOff)
    IN  IF isSingle(hdr)
        THEN LET ch == fragChar(hdr)
                 chWord == ByteAt(word, nFragIx)
             IN  IF ch = chWord THEN 1 ELSE IF ch > chWord THEN 0 ELSE -1
        ELSE LET nFrag == IF isChildless(hdr) THEN nNodeOff + 4
                          ELSE nNodeOff + 4 + 1 + 4
                 m == matchLoop(mem, word, nWordLen, nFrag, nFragIx, 0)
             IN  IF ByteAt(mem, m[1]) = 0 THEN m[2]
                 ELSE IF nFragIx + m[2] >= nWordLen THEN m[2]
                 ELSE IF ByteAt(mem, m[1]) > ByteAt(word, nFragIx + m[2])
                      THEN 0 ELSE -1

\* a variant of matches that counts the fragment's terminating NUL as
\* matched
matchesWithNul(mem, word, nWordLen, nNodeOff, nFragIx) ==
    LET hdr == uintAt(mem, nNodeOff)
    IN  IF isSingle(hdr)
        THEN LET ch == fragChar(hdr)
                 chWord == ByteAt(word, nFragIx)
             IN  IF ch = chWord THEN 1 ELSE IF ch > chWord THEN 0 ELSE -1
        ELSE LET nFrag == IF isChildless(hdr) THEN nNodeOff + 4
                          ELSE nNodeOff + 4 + 1 + 4
                 m == matchLoop(mem, word, nWordLen, nFrag, nFragIx, 0)
             IN  IF ByteAt(mem, m[1]) = 0 THEN m[2] + 1
                 ELSE IF nFragIx + m[2] >= nWordLen THEN 0
                 ELSE IF ByteAt(mem, m[1]) > ByteAt(word, nFragIx + m[2])
                      THEN 0 ELSE -1

\* Trie::matches: the number of bytes matched, -1 if the node is less than
\* word[nFragIx..], 0 if it is greater
matches(mem, word, nWordLen, nNodeOff, nFragIx) ==
    LET hdr == uintAt(mem, nNodeOff)
    IN  IF isSingle(hdr)
        THEN LET ch == fragChar(hdr)
                 chWord == ByteAt(word, nFragIx)
             IN  IF ch = chWord THEN 1 ELSE IF ch > chWord THEN 0 ELSE -1
        ELSE LET nFrag == IF isChildless(hdr) THEN nNodeOff + 4
                          ELSE nNodeOff + 4 + 1 + 4
                 m == matchLoop(mem, word, nWordLen, nFrag, nFragIx, 0)
             IN  IF ByteAt(mem, m[1]) = 0 THEN m[2]
                 ELSE IF nFragIx + m[2] >= nWordLen THEN 0
                 ELSE IF ByteAt(mem, m[1]) > ByteAt(word, nFragIx + m[2])
                      THEN 0 ELSE -1

\* nOffsets[0] = uintAt(nChildOffset);
\* for (i = 1; i < nNumChildren; i++) nOffsets[i] = nOffsets[i-1] + childSize(nOffsets[i-1]);
childOffsets(mem, first, nNumChildren) ==
    LET after[p \in 0..Len(mem)] == p + childSize(mem, p)
        nOffs[i \in 1..(IF nNumChildren <= 1 THEN 1 ELSE nNumChildren)] ==
            IF i = 1 THEN first ELSE after[nOffs[i - 1]]
    IN  nOffs

-----------------------------------------------------------------------------
(* The writer's side: the sections the decoders are applied to.  These     *)
(* lay out the data the way the reader above walks it.                     *)

LE16(v) == <<v % 2^8, v \div 2^8>>
LE32(v) == LE16(v % 2^16) \o LE16(v \div 2^16)

RECURSIVE Concat(_)
\* the concatenation of a sequence of byte sequences
Concat(ss) == IF ss = << >> THEN << >> ELSE Head(ss) \o Concat(Tail(ss))

\* bits (a sequence of 0/1) packed into bytes, bit i of the stream being
\* bit i % 8 of byte i \div 8
PackBits(bits) ==
    [b \in 1..((Len(bits) + 7) \div 8) |->
        LET Bit(t) == IF 8 * (b - 1) + t + 1 <= Len(bits)
                      THEN bits[8 * (b - 1) + t + 1] * 2^t ELSE 0
        IN  Bit(0) + Bit(1) + Bit(2) + Bit(3) + Bit(4) + Bit(5) + Bit(6) + Bit(7)]

RECURSIVE BitLen(_)
BitLen(v) == IF v = 0 THEN 0 ELSE 1 + BitLen(v \div 2)

\* the high-bits stream: element j (from 1) is the 1-bit at position
\* (j - 1) + (S[j] >> lb), the gaps being the zeroes
EFHighBits(S, lb) ==
    LET hp(j) == S[j] \div 2^lb
    IN  [p \in 1..(Len(S) + hp(Len(S))) |->
            IF \E j \in 1..Len(S) : p - 1 = (j - 1) + hp(j) THEN 1 ELSE 0]

EFLowBits(S, lb) ==
    [p \in 1..(Len(S) * lb) |->
        (S[((p - 1) \div lb) + 1] \div 2^((p - 1) % lb)) % 2]

\* index entry k (from 1): the bits of the high stream written before
\* element k * Q (from 0): k * Q ones and the zeroes of element k * Q - 1
EFIndex(S, lb, Q) ==
    [k \in 1..((Len(S) - 1) \div Q) |-> k * Q + (S[k * Q] \div 2^lb)]

\* the list S with lb low bits and hb high bits (hb > 0 unless every high
\* part is zero), quantum Q
EncodeEF(S, lb, hb, Q) ==
    LE32(Len(S)) \o LE16(lb) \o LE16(hb)
    \o (IF hb # 0
        THEN Concat([k \in 1..((Len(S) - 1) \div Q) |-> LE32(EFIndex(S, lb, Q)[k])])
        ELSE << >>)
    \o PackBits(EFLowBits(S, lb))
    \o (IF hb # 0 THEN PackBits(EFHighBits(S, lb)) ELSE << >>)

\* the widths a writer may give S: any lb up to maxLb, hb the width of the
\* largest high part
EFWidths(S, maxLb) ==
    {<<lb, BitLen(S[Len(S)] \div 2^lb)>> : lb \in 0..maxLb}

\* chunk q (from 0) of S in chunks of Qo, and the prefix it is relative to
Chunk(S, Qo, q) ==
    SubSeq(S, q * Qo + 1, IF (q + 1) * Qo < Len(S) THEN (q + 1) * Qo ELSE Len(S))

ChunkPrefix(S, Qo, q) == IF q = 0 THEN 0 ELSE S[q * Qo]

NumChunks(S, Qo) == (Len(S) + Qo - 1) \div Qo

\* the widths of a list whose low width is at most lb: hb as small as it
\* can be, no high stream when every high part is zero
EncodeList(S, lb, Q) == EncodeEF(S, lb, BitLen(S[Len(S)] \div 2^lb), Q)

RECURSIVE ChunkOffsets(_, _, _)
\* the byte offsets of the chunks, the first at offset first
ChunkOffsets(chunks, k, first) ==
    IF k > Len(chunks) THEN << >>
    ELSE <<first>> \o ChunkOffsets(chunks, k + 1, first + Len(chunks[k]))

\* nChunks, the chunk offsets, the outer list and the chunks
PartitionLayout(outer, chunks) ==
    LE32(Len(chunks))
    \o Concat([q \in 1..Len(chunks) |->
                  LE32(ChunkOffsets(chunks, 1, 4 * (1 + Len(chunks)) + Len(outer))[q])])
    \o outer \o Concat(chunks)

\* the partitioned list of S: the outer list holds the last value of every
\* chunk, and each chunk is relative to the last value of the chunk before
EncodePartition(S, lb, Qo, Qi) ==
    PartitionLayout(
        EncodeList([q \in 1..NumChunks(S, Qo) |-> S[IF q * Qo < Len(S) THEN q * Qo ELSE Len(S)]],
                   lb, Qi),
        [q \in 1..NumChunks(S, Qo) |->
            EncodeList([r \in 1..Len(Chunk(S, Qo, q - 1)) |->
                           Chunk(S, Qo, q - 1)[r] - ChunkPrefix(S, Qo, q - 1)],
                       lb, Qi)])

\* rank index k is stored as the codeword cw of w bits with
\* k = cw - 2 + 2^w
CwWidth(k) == BitLen(k + 2) - 1
CwValue(k) == k + 2 - 2^CwWidth(k)

RECURSIVE CwStart(_, _)
\* the bit offset of codeword j (from 0) of the rank indices ks
CwStart(ks, j) == IF j = 0 THEN 0 ELSE CwStart(ks, j - 1) + CwWidth(ks[j])

FreqStartBits(ks) ==
    [p \in 1..(CwStart(ks, Len(ks)) + 1) |->
        IF \E j \in 0..Len(ks) : p - 1 = CwStart(ks, j) THEN 1 ELSE 0]

FreqCwBits(ks) ==
    [p \in 1..CwStart(ks, Len(ks)) |->
        LET j == CHOOSE i \in 1..Len(ks) :
                    CwStart(ks, i - 1) <= p - 1 /\ p - 1 < CwStart(ks, i)
        IN  (CwValue(ks[j]) \div 2^(p - 1 - CwStart(ks, j - 1))) % 2]

\* the frequency section of the rank indices ks into the table ranks
EncodeFreq(ranks, ks, Q) ==
    LET cw == PackBits(FreqCwBits(ks))
        m == (Len(ks) - 1) \div Q
    IN  LE16(Len(ranks)) \o Concat([r \in 1..Len(ranks) |-> LE16(ranks[r])])
        \o LE32(m) \o Concat([q \in 1..m |-> LE32(CwStart(ks, q * Q))])
        \o LE32(Len(cw)) \o cw \o PackBits(FreqStartBits(ks))

\* the value field of an interim node
NoValue == 2^23 - 1

RECURSIVE SortedSeq(_)
\* a finite set of naturals in ascending order
SortedSeq(A) ==
    IF A = {} THEN << >>
    ELSE LET m == CHOOSE x \in A : \A y \in A : x <= y
         IN  <<m>> \o SortedSeq(A \ {m})

\* the length of the longest common prefix of the words of W
CommonPrefixLen(W) ==
    LET Agree(k) == \A u \in W, v \in W :
                       Len(u) >= k /\ Len(v) >= k /\ SubSeq(u, 1, k) = SubSeq(v, 1, k)
    IN  CHOOSE k \in 0..(CHOOSE l \in {Len(w) : w \in W} : TRUE) :
            Agree(k) /\ ~Agree(k + 1)

RECURSIVE BuildNode(_, _)
\* the compressed trie of items, a set of <<word, value>>, below an edge
\* labelled frag: one child per first byte, in ascending order, labelled
\* with the longest prefix its words share
BuildNode(frag, items) ==
    LET here == {it \in items : it[1] = << >>}
        first == {it[1][1] : it \in items \ here}
        order == SortedSeq(first)
        Group(c) == {it \in items \ here : it[1][1] = c}
        Child(c) ==
            LET k == CommonPrefixLen({it[1] : it \in Group(c)})
                w == (CHOOSE it \in Group(c) : TRUE)[1]
            IN  BuildNode(SubSeq(w, 1, k),
                          {<<SubSeq(it[1], k + 1, Len(it[1])), it[2]>> : it \in Group(c)})
    IN  [frag |-> frag,
         value |-> IF here = {} THEN NoValue ELSE (CHOOSE it \in here : TRUE)[2],
         children |-> [i \in 1..Len(order) |-> Child(order[i])]]

NodeSingle(node) == Len(node.frag) = 1
NodeChildless(node) == Len(node.children) = 0

NodeSize(node) ==
    4 + (IF NodeChildless(node) THEN 0 ELSE 5)
      + (IF NodeSingle(node) THEN 0 ELSE Len(node.frag) + 1)

RECURSIVE BlockSize(_)
\* the bytes of a run of sibling nodes
BlockSize(nodes) ==
    IF Len(nodes) = 0 THEN 0 ELSE NodeSize(Head(nodes)) + BlockSize(Tail(nodes))

RECURSIVE TreeSize(_)
\* the bytes of a run of siblings and of everything below them
TreeSize(nodes) ==
    IF Len(nodes) = 0 THEN 0
    ELSE NodeSize(Head(nodes)) + TreeSize(Head(nodes).children) + TreeSize(Tail(nodes))

\* the bytes of one node whose children start at childOff
NodeBytes(node, childOff) ==
    LET ch == IF NodeSingle(node) THEN node.frag[1] ELSE 0
        v == node.value
    IN  <<v % 2^8, (v \div 2^8) % 2^8, (v \div 2^16) + 2^7 * (ch % 2),
          (ch \div 2) + (IF NodeChildless(node) THEN 2^6 ELSE 0)
                      + (IF NodeSingle(node) THEN 2^7 ELSE 0)>>
        \o (IF NodeChildless(node) THEN << >>
            ELSE <<Len(node.children)>> \o LE32(childOff))
        \o (IF NodeSingle(node) THEN << >> ELSE node.frag \o <<0>>)

RECURSIVE LayoutNodes(_, _, _)
\* the headers of the siblings nodes[i..], the children of the i-th
\* starting at childOff
LayoutNodes(nodes, i, childOff) ==
    IF i > Len(nodes) THEN << >>
    ELSE NodeBytes(nodes[i], childOff)
         \o LayoutNodes(nodes, i + 1, childOff + TreeSize(nodes[i].children))

RECURSIVE LayoutBelow(_, _, _)
RECURSIVE LayoutTree(_, _)
\* the siblings at offset start, followed by the subtrees below each of them
LayoutTree(nodes, start) ==
    IF Len(nodes) = 0 THEN << >>
    ELSE LayoutNodes(nodes, 1, start + BlockSize(nodes))
         \o LayoutBelow(nodes, 1, start + BlockSize(nodes))

LayoutBelow(nodes, i, start) ==
    IF i > Len(nodes) THEN << >>
    ELSE LayoutTree(nodes[i].children, start)
         \o LayoutBelow(nodes, i + 1, start + TreeSize(nodes[i].children))

\* the file: the signature, the offset of the root node, the trie of items
EncodeTrie(items) ==
    [i \in 1..16 |-> 0] \o LE32(20) \o LayoutTree(<<BuildNode(<< >>, items)>>, 20)

-----------------------------------------------------------------------------
(* Bounds of the model and the inputs drawn within them.                   *)

BufLen == 5        \* bytes of a raw bit buffer
MaxN == 3          \* elements of an Elias-Fano list
MaxLb == 2         \* low-bit width of an Elias-Fano list
MaxTokens == 4     \* codewords of a frequency section
MaxWords == 3      \* words inserted into a trie

ByteVals == {0, 2, 165}
Gaps == {0, 1, 3}
Quanta == {1, 2, 4, 8}
Junk == {0, 255}        \* what may follow a section in the mapped file

RECURSIVE SeqsOfLen(_)
\* the non-decreasing sequences of n elements with steps from Gaps
SeqsOfLen(n) ==
    IF n = 0 THEN {<< >>}
    ELSE {Append(s, (IF Len(s) = 0 THEN 0 ELSE s[Len(s)]) + g) :
             s \in SeqsOfLen(n - 1), g \in Gaps}

\* the list of the spec's scenarios T2 to T4, with the widths a writer
\* gives it for n = 8 and a largest value of 1000
T2Seq == <<0, 1, 2, 10, 11, 12, 100, 1000>>

\* the quanta of a list of n elements: the powers of two up to n
QuantaFor(n) == {q \in Quanta : q <= n}

\* the lists encoded: [S, lb, hb, Q], every width a writer may give S and
\* every quantum; the last ones are the spec's scenario T2
EFInputs ==
    UNION {{[S |-> S, lb |-> w[1], hb |-> w[2], Q |-> Q] :
               w \in EFWidths(S, MaxLb), Q \in QuantaFor(Len(S))} :
           S \in UNION {SeqsOfLen(n) : n \in 1..MaxN}}
    \cup {[S |-> T2Seq, lb |-> 6, hb |-> 4, Q |-> Q] : Q \in Quanta}

Idle == [op |-> "idle"]
NoRet == << >>

\* no walk of the trie is in progress
WalkIdle ==
    /\ pc = "idle"
    /\ m_pbWord = << >>
    /\ m_nWordLen = 0
    /\ nNodeOffset = 0
    /\ nHdr = <<0, 0>>
    /\ nFragmentIndex = 0
    /\ nLo = 0
    /\ nHi = 0
    /\ nOffsets = << >>

\* a call of a decoder that is one step of the model: it returns r
Returns(c, r) ==
    /\ call = Idle
    /\ call' = c
    /\ ret' = r
    /\ UNCHANGED <<buf, src>>
    /\ UNCHANGED trieVars

\* the caller takes the result; the buffer is as it was
Return ==
    /\ call # Idle
    /\ pc = "idle"
    /\ call' = Idle
    /\ ret' = NoRet
    /\ UNCHANGED <<buf, src>>
    /\ UNCHANGED trieVars

-----------------------------------------------------------------------------
(* Raw bit buffers: bitselect and retrieve.                                *)

InitBits ==
    /\ buf \in [1..BufLen -> ByteVals]
    /\ src = [kind |-> "bits"]
    /\ call = Idle
    /\ ret = NoRet
    /\ WalkIdle

RECURSIVE SumBits(_, _)
\* the number of 1-bits in the first k bytes of mem
SumBits(mem, k) == IF k = 0 THEN 0 ELSE BIT_COUNT(mem[k]) + SumBits(mem, k - 1)

\* bitselect(buf, n) for an n-th set bit that exists
Bitselect ==
    \E n \in 1..(8 * BufLen) :
        /\ n <= SumBits(buf, Len(buf))
        /\ Returns([op |-> "bitselect", n |-> n], bitselect(buf, 0, n))

\* retrieve(buf, nStart, 1) of a bit of the buffer
RetrieveBit ==
    \E nStart \in 0..(8 * BufLen - 1), ub \in UB_SHIFT :
        Returns([op |-> "retrieve", nStart |-> nStart, n |-> 1],
                retrieve(buf, 0, nStart, 1, ub))

NextBits == Bitselect \/ RetrieveBit \/ Return

SpecBits == InitBits /\ [][NextBits]_vars

\* retrieve(buf, nStart, n) for a start in the first byte and any width
Retrieve ==
    \E nStart \in 0..7, n \in 0..32, ub \in UB_SHIFT :
        /\ nStart + n <= 8 * BufLen
        /\ Returns([op |-> "retrieve", nStart |-> nStart, n |-> n],
                   retrieve(buf, 0, nStart, n, ub))

NextRetrieve == Retrieve \/ Return

SpecRetrieve == InitBits /\ [][NextRetrieve]_vars

-----------------------------------------------------------------------------
(* Elias-Fano lists: lookup and pair lookup.                               *)

InitEF ==
    /\ src \in {[kind |-> "ef", S |-> e.S, lb |-> e.lb, hb |-> e.hb, Q |-> e.Q] :
                   e \in EFInputs}
    /\ \E j \in Junk : buf = EncodeEF(src.S, src.lb, src.hb, src.Q) \o <<j, j>>
    /\ call = Idle
    /\ ret = NoRet
    /\ WalkIdle

LookupMonotonic ==
    \E i \in 0..(Len(src.S) - 1) :
        Returns([op |-> "lookupMonotonic", nIndex |-> i],
                lookupMonotonic(buf, 0, src.Q, i))

LookupPairMonotonic ==
    \E i \in 0..(Len(src.S) - 2) :
        Returns([op |-> "lookupPairMonotonic", nIndex |-> i],
                lookupPairMonotonic(buf, 0, src.Q, i))

NextEF == LookupMonotonic \/ LookupPairMonotonic \/ Return

SpecEF == InitEF /\ [][NextEF]_vars

-----------------------------------------------------------------------------
(* Partitioned lists: lookup and pair lookup.                              *)

\* the partitioned lists encoded: [S, lb, Qo, Qi]; the last one is the
\* spec's scenario T4
PartInputs ==
    {[S |-> S, lb |-> lb, Qo |-> Qo, Qi |-> Qi] :
        S \in UNION {SeqsOfLen(n) : n \in 2..MaxN},
        lb \in 0..MaxLb, Qo \in {2, 4}, Qi \in {1, 8}}
    \cup {[S |-> T2Seq, lb |-> 2, Qo |-> 4, Qi |-> 2]}

InitPart ==
    /\ src \in {[kind |-> "part", S |-> e.S, lb |-> e.lb, Qo |-> e.Qo, Qi |-> e.Qi] :
                   e \in PartInputs}
    /\ \E j \in Junk : buf = EncodePartition(src.S, src.lb, src.Qo, src.Qi) \o <<j, j>>
    /\ call = Idle
    /\ ret = NoRet
    /\ WalkIdle

LookupPartition ==
    \E i \in 0..(Len(src.S) - 1) :
        Returns([op |-> "lookupPartition", nIndex |-> i],
                lookupPartition(buf, 0, src.Qo, src.Qi, i))

LookupPairPartition ==
    \E i \in 0..(Len(src.S) - 2) :
        Returns([op |-> "lookupPairPartition", nIndex |-> i],
                lookupPairPartition(buf, 0, src.Qo, src.Qi, i))

NextPart == LookupPartition \/ LookupPairPartition \/ Return

SpecPart == InitPart /\ [][NextPart]_vars

-----------------------------------------------------------------------------
(* Binary search over both kinds of list.                                  *)

\* the values searched for: every element, and values between and beyond
Targets(S) == {0} \cup {S[j] + d : j \in 1..Len(S), d \in {0, 3}}

\* the argument a caller of a prefix search passes to find x in [nP1, nP2):
\* x relative to the element before nP1, in UINT64 arithmetic
PrefixArg(S, nP1, x) ==
    IF nP1 = 0 THEN U64(x) ELSE LSub(U64(x), U64(S[nP1]))

\* the lists searched: the Elias-Fano lists, and the partitioned lists of
\* at most MaxN elements
InitSearch ==
    /\ src \in {[kind |-> "ef", S |-> e.S, lb |-> e.lb, hb |-> e.hb, Q |-> e.Q] :
                   e \in EFInputs}
               \cup
               {[kind |-> "part", S |-> e.S, lb |-> e.lb, Qo |-> e.Qo, Qi |-> e.Qi] :
                   e \in {x \in PartInputs : Len(x.S) <= MaxN}}
    /\ buf = (IF src.kind = "ef"
              THEN EncodeEF(src.S, src.lb, src.hb, src.Q)
              ELSE EncodePartition(src.S, src.lb, src.Qo, src.Qi)) \o <<0, 0>>
    /\ call = Idle
    /\ ret = NoRet
    /\ WalkIdle

SearchMonotonic ==
    \E nP1 \in 0..Len(src.S), nP2 \in 0..Len(src.S), x \in Targets(src.S) :
        /\ src.kind = "ef"
        /\ nP1 <= nP2
        /\ Returns([op |-> "searchMonotonic", nP1 |-> nP1, nP2 |-> nP2, x |-> x],
                   searchMonotonic(buf, 0, src.Q, nP1, nP2, U64(x)))

SearchMonotonicPrefix ==
    \E nP1 \in 0..Len(src.S), nP2 \in 0..Len(src.S), x \in Targets(src.S) :
        /\ src.kind = "ef"
        /\ nP1 <= nP2
        /\ Returns([op |-> "searchMonotonicPrefix", nP1 |-> nP1, nP2 |-> nP2, x |-> x],
                   searchMonotonicPrefix(buf, 0, src.Q, nP1, nP2,
                                         PrefixArg(src.S, nP1, x)))

SearchPartition ==
    \E nP1 \in 0..Len(src.S), nP2 \in 0..Len(src.S), x \in Targets(src.S) :
        /\ src.kind = "part"
        /\ nP1 <= nP2
        /\ Returns([op |-> "searchPartition", nP1 |-> nP1, nP2 |-> nP2, x |-> x],
                   searchPartition(buf, 0, src.Qo, src.Qi, nP1, nP2, U64(x)))

SearchPartitionPrefix ==
    \E nP1 \in 0..Len(src.S), nP2 \in 0..Len(src.S), x \in Targets(src.S) :
        /\ src.kind = "part"
        /\ nP1 <= nP2
        /\ Returns([op |-> "searchPartitionPrefix", nP1 |-> nP1, nP2 |-> nP2, x |-> x],
                   searchPartitionPrefix(buf, 0, src.Qo, src.Qi, nP1, nP2,
                                         PrefixArg(src.S, nP1, x)))

NextSearch ==
    \/ SearchMonotonic
    \/ SearchMonotonicPrefix
    \/ SearchPartition
    \/ SearchPartitionPrefix
    \/ Return

SpecSearch == InitSearch /\ [][NextSearch]_vars

-----------------------------------------------------------------------------
(* The frequency section.                                                  *)

\* the rank table; entries 0..3 are those of the spec's scenario T5
RankTable == <<0, 5, 7, 99, 300, 65535, 1>>

\* rank indices with codewords of 1, 1, 2 and 3 bits
RankIdx == {0, 1, 2, 6}

\* the rank indices of the spec's scenario T5
T5Seq == <<0, 1, 2, 2, 1, 0, 3>>

RECURSIVE IdxSeqs(_)
IdxSeqs(n) ==
    IF n = 0 THEN {<< >>}
    ELSE {Append(s, k) : s \in IdxSeqs(n - 1), k \in RankIdx}

InitFreq ==
    /\ src \in {[kind |-> "freq", ks |-> ks, Q |-> Q] :
                   ks \in UNION {IdxSeqs(n) : n \in 1..MaxTokens} \cup {T5Seq},
                   Q \in Quanta}
    /\ buf = EncodeFreq(RankTable, src.ks, src.Q)
    /\ call = Idle
    /\ ret = NoRet
    /\ WalkIdle

LookupFrequency ==
    \E i \in 0..(Len(src.ks) - 1), ub \in UB_SHIFT :
        Returns([op |-> "lookupFrequency", nIndex |-> i],
                lookupFrequency(buf, 0, src.Q, i, ub))

NextFreq == LookupFrequency \/ Return

SpecFreq == InitFreq /\ [][NextFreq]_vars

-----------------------------------------------------------------------------
(* The trie: mapping() is a walk, one action per loop iteration.           *)

\* the words a writer may insert, with their values; "a", "ab", "abc" and
\* "abd" are the spec's scenario T1
Pool ==
    { <<<< >>, 5>>, <<<<1>>, 1>>, <<<<1, 2>>, 2>>, <<<<1, 2, 3>>, 3>>,
      <<<<1, 2, 4>>, 4>>, <<<<2>>, 0>>, <<<<2, 1, 1>>, 2^23 - 2>>,
      <<<<127>>, 2^22>>, <<<<1, 3, 1>>, 2^16 + 7>> }

T1Items == { <<<<1>>, 1>>, <<<<1, 2>>, 2>>, <<<<1, 2, 3>>, 3>>, <<<<1, 2, 4>>, 4>> }

\* the words looked up: the pool, and words that are in no trie
Queries ==
    {it[1] : it \in Pool}
    \cup { <<1, 2, 5>>, <<3>>, <<1, 2, 3, 1>>, <<2, 1>>, <<1, 3>>, <<126>> }

InitTrie ==
    /\ src \in {[kind |-> "trie", items |-> items] :
                   items \in {I \in SUBSET Pool : Cardinality(I) <= MaxWords}
                             \cup {T1Items}}
    /\ buf = EncodeTrie(src.items)
    /\ call = Idle
    /\ ret = NoRet
    /\ WalkIdle

\* mapping(pbMap, pbWord): the Trie is constructed over the buffer and the
\* walk starts at the root
Mapping ==
    \E w \in Queries :
        /\ call = Idle
        /\ pc = "idle"
        /\ call' = [op |-> "mapping", word |-> w]
        /\ m_pbWord' = w \o <<0>>
        /\ m_nWordLen' = strlen(w \o <<0>>, 0)
        /\ nNodeOffset' = U32At(buf, 16)
        /\ nHdr' = uintAt(buf, U32At(buf, 16))
        /\ nFragmentIndex' = 0
        /\ pc' = "top"
        /\ UNCHANGED <<buf, src, ret, nLo, nHi, nOffsets>>

\* the top of the while loop of Trie::lookup
LookupTop ==
    /\ pc = "top"
    /\ IF nFragmentIndex >= m_nWordLen
       THEN /\ ret' = (IF nodeValue(nHdr) = <<2^16 - 1, 2^7 - 1>>
                       THEN NOT_FOUND ELSE nodeValue(nHdr))
            /\ pc' = "done"
            /\ UNCHANGED <<nLo, nHi, nOffsets>>
       ELSE IF isChildless(nHdr)
       THEN /\ ret' = NOT_FOUND
            /\ pc' = "done"
            /\ UNCHANGED <<nLo, nHi, nOffsets>>
       ELSE /\ nLo' = 0
            /\ nHi' = ByteAt(buf, nNodeOffset + 4)
            /\ nOffsets' = childOffsets(buf, U32At(buf, nNodeOffset + 4 + 1),
                                        ByteAt(buf, nNodeOffset + 4))
            /\ pc' = "search"
            /\ UNCHANGED ret
    /\ UNCHANGED <<buf, src, call, m_pbWord, m_nWordLen, nNodeOffset, nHdr,
                   nFragmentIndex>>

\* one iteration of the do-while loop: the binary search for a child
LookupSearch ==
    /\ pc = "search"
    /\ IF nLo >= nHi
       THEN /\ ret' = NOT_FOUND
            /\ pc' = "done"
            /\ UNCHANGED <<nNodeOffset, nHdr, nFragmentIndex, nLo, nHi>>
       ELSE LET nMid == (nLo + nHi) \div 2
                nMidOffset == nOffsets[nMid + 1]
                iMatchLen == matches(buf, m_pbWord, m_nWordLen, nMidOffset,
                                     nFragmentIndex)
            IN  IF iMatchLen > 0
                THEN /\ nNodeOffset' = nMidOffset
                     /\ nHdr' = uintAt(buf, nMidOffset)
                     /\ nFragmentIndex' = nFragmentIndex + iMatchLen
                     /\ pc' = "top"
                     /\ UNCHANGED <<ret, nLo, nHi>>
                ELSE IF iMatchLen < 0
                THEN /\ nLo' = nMid + 1
                     /\ UNCHANGED <<ret, pc, nNodeOffset, nHdr, nFragmentIndex, nHi>>
                ELSE /\ nHi' = nMid
                     /\ UNCHANGED <<ret, pc, nNodeOffset, nHdr, nFragmentIndex, nLo>>
    /\ UNCHANGED <<buf, src, call, m_pbWord, m_nWordLen, nOffsets>>

\* mapping() returns: the Trie instance goes out of scope
MappingReturn ==
    /\ pc = "done"
    /\ call' = Idle
    /\ ret' = NoRet
    /\ pc' = "idle"
    /\ m_pbWord' = << >>
    /\ m_nWordLen' = 0
    /\ nNodeOffset' = 0
    /\ nHdr' = <<0, 0>>
    /\ nFragmentIndex' = 0
    /\ nLo' = 0
    /\ nHi' = 0
    /\ nOffsets' = << >>
    /\ UNCHANGED <<buf, src>>

NextTrie == Mapping \/ LookupTop \/ LookupSearch \/ MappingReturn

SpecTrie == InitTrie /\ [][NextTrie]_vars

\* a call that has started runs on: the thread executes its next iteration
SpecTrieLive ==
    /\ InitTrie
    /\ [][NextTrie]_vars
    /\ WF_vars(LookupTop)
    /\ WF_vars(LookupSearch)

-----------------------------------------------------------------------------
(* Concurrent calls of mapping() on one buffer.  Every variable of the     *)
(* walk is a function here: the members of a Trie by instance, the locals  *)
(* of Trie::lookup, the call and its result by thread.  Each assignment to *)
(* a member and each loop iteration is a step of its own.                  *)

NumThreads == 2

Threads == 1..NumThreads

\* a variant of instanceOf in which all calls walk with one Trie instance
instanceShared(t) == 1

\* the Trie instance the call of thread t walks with: mapping() constructs
\* its own on its stack
instanceOf(t) == t

\* the words the threads look up in the tries of InitConc
ConcQueries == { <<1>>, <<1, 2, 4>>, <<1, 2, 5>>, <<3>> }

InitConc ==
    /\ src \in {[kind |-> "trie", items |-> items] :
                   items \in {I \in SUBSET T1Items : Cardinality(I) <= MaxWords}
                             \cup {T1Items}}
    /\ buf = EncodeTrie(src.items)
    /\ call = [t \in Threads |-> Idle]
    /\ ret = [t \in Threads |-> NoRet]
    /\ pc = [t \in Threads |-> "idle"]
    /\ m_pbWord = [t \in Threads |-> << >>]
    /\ m_nWordLen = [t \in Threads |-> 0]
    /\ nNodeOffset = [t \in Threads |-> 0]
    /\ nHdr = [t \in Threads |-> <<0, 0>>]
    /\ nFragmentIndex = [t \in Threads |-> 0]
    /\ nLo = [t \in Threads |-> 0]
    /\ nHi = [t \in Threads |-> 0]
    /\ nOffsets = [t \in Threads |-> << >>]

\* mapping(pbMap, pbWord) is called: Trie trie(pbMap) reads the root
CMapping(t) ==
    \E w \in ConcQueries :
        /\ pc[t] = "idle"
        /\ call' = [call EXCEPT ![t] = [op |-> "mapping", word |-> w]]
        /\ m_pbWord' = [m_pbWord EXCEPT ![instanceOf(t)] = << >>]
        /\ m_nWordLen' = [m_nWordLen EXCEPT ![instanceOf(t)] = 0]
        /\ nNodeOffset' = [nNodeOffset EXCEPT ![t] = U32At(buf, 16)]
        /\ nHdr' = [nHdr EXCEPT ![t] = uintAt(buf, U32At(buf, 16))]
        /\ pc' = [pc EXCEPT ![t] = "word"]
        /\ UNCHANGED <<buf, src, ret, nFragmentIndex, nLo, nHi, nOffsets>>

\* Trie::mapping: this->m_pbWord = pbWord
CSetWord(t) ==
    /\ pc[t] = "word"
    /\ m_pbWord' = [m_pbWord EXCEPT ![instanceOf(t)] = call[t].word \o <<0>>]
    /\ pc' = [pc EXCEPT ![t] = "len"]
    /\ UNCHANGED <<buf, src, call, ret, m_nWordLen, nNodeOffset, nHdr,
                   nFragmentIndex, nLo, nHi, nOffsets>>

\* Trie::mapping: this->m_nWordLen = strlen(pbWord); lookup(root, hdr, 0)
CSetLen(t) ==
    /\ pc[t] = "len"
    /\ m_nWordLen' = [m_nWordLen EXCEPT
                         ![instanceOf(t)] = strlen(call[t].word \o <<0>>, 0)]
    /\ nFragmentIndex' = [nFragmentIndex EXCEPT ![t] = 0]
    /\ pc' = [pc EXCEPT ![t] = "top"]
    /\ UNCHANGED <<buf, src, call, ret, m_pbWord, nNodeOffset, nHdr,
                   nLo, nHi, nOffsets>>

\* the top of the while loop of Trie::lookup, in thread t
CLookupTop(t) ==
    /\ pc[t] = "top"
    /\ IF nFragmentIndex[t] >= m_nWordLen[instanceOf(t)]
       THEN /\ ret' = [ret EXCEPT ![t] =
                          IF nodeValue(nHdr[t]) = <<2^16 - 1, 2^7 - 1>>
                          THEN NOT_FOUND ELSE nodeValue(nHdr[t])]
            /\ pc' = [pc EXCEPT ![t] = "done"]
            /\ UNCHANGED <<nLo, nHi, nOffsets>>
       ELSE IF isChildless(nHdr[t])
       THEN /\ ret' = [ret EXCEPT ![t] = NOT_FOUND]
            /\ pc' = [pc EXCEPT ![t] = "done"]
            /\ UNCHANGED <<nLo, nHi, nOffsets>>
       ELSE /\ nLo' = [nLo EXCEPT ![t] = 0]
            /\ nHi' = [nHi EXCEPT ![t] = ByteAt(buf, nNodeOffset[t] + 4)]
            /\ nOffsets' = [nOffsets EXCEPT ![t] =
                               childOffsets(buf, U32At(buf, nNodeOffset[t] + 4 + 1),
                                            ByteAt(buf, nNodeOffset[t] + 4))]
            /\ pc' = [pc EXCEPT ![t] = "search"]
            /\ UNCHANGED ret
    /\ UNCHANGED <<buf, src, call, m_pbWord, m_nWordLen, nNodeOffset, nHdr,
                   nFragmentIndex>>

\* one iteration of the do-while loop of Trie::lookup, in thread t
CLookupSearch(t) ==
    /\ pc[t] = "search"
    /\ IF nLo[t] >= nHi[t]
       THEN /\ ret' = [ret EXCEPT ![t] = NOT_FOUND]
            /\ pc' = [pc EXCEPT ![t] = "done"]
            /\ UNCHANGED <<nNodeOffset, nHdr, nFragmentIndex, nLo, nHi>>
       ELSE LET nMid == (nLo[t] + nHi[t]) \div 2
                nMidOffset == nOffsets[t][nMid + 1]
                iMatchLen == matches(buf, m_pbWord[instanceOf(t)],
                                     m_nWordLen[instanceOf(t)], nMidOffset,
                                     nFragmentIndex[t])
            IN  IF iMatchLen > 0
                THEN /\ nNodeOffset' = [nNodeOffset EXCEPT ![t] = nMidOffset]
                     /\ nHdr' = [nHdr EXCEPT ![t] = uintAt(buf, nMidOffset)]
                     /\ nFragmentIndex' = [nFragmentIndex EXCEPT
                                              ![t] = nFragmentIndex[t] + iMatchLen]
                     /\ pc' = [pc EXCEPT ![t] = "top"]
                     /\ UNCHANGED <<ret, nLo, nHi>>
                ELSE IF iMatchLen < 0
                THEN /\ nLo' = [nLo EXCEPT ![t] = nMid + 1]
                     /\ UNCHANGED <<ret, pc, nNodeOffset, nHdr, nFragmentIndex, nHi>>
                ELSE /\ nHi' = [nHi EXCEPT ![t] = nMid]
                     /\ UNCHANGED <<ret, pc, nNodeOffset, nHdr, nFragmentIndex, nLo>>
    /\ UNCHANGED <<buf, src, call, m_pbWord, m_nWordLen, nOffsets>>

\* mapping() returns in thread t: its locals and its Trie are gone
CMappingReturn(t) ==
    /\ pc[t] = "done"
    /\ call' = [call EXCEPT ![t] = Idle]
    /\ ret' = [ret EXCEPT ![t] = NoRet]
    /\ pc' = [pc EXCEPT ![t] = "idle"]
    /\ nNodeOffset' = [nNodeOffset EXCEPT ![t] = 0]
    /\ nHdr' = [nHdr EXCEPT ![t] = <<0, 0>>]
    /\ nFragmentIndex' = [nFragmentIndex EXCEPT ![t] = 0]
    /\ nLo' = [nLo EXCEPT ![t] = 0]
    /\ nHi' = [nHi EXCEPT ![t] = 0]
    /\ nOffsets' = [nOffsets EXCEPT ![t] = << >>]
    /\ UNCHANGED <<buf, src, m_pbWord, m_nWordLen>>

NextConc ==
    \E t \in Threads :
        \/ CMapping(t)
        \/ CSetWord(t)
        \/ CSetLen(t)
        \/ CLookupTop(t)
        \/ CLookupSearch(t)
        \/ CMappingReturn(t)

SpecConc == InitConc /\ [][NextConc]_vars

-----------------------------------------------------------------------------
(* Lists long enough for the quantum index to be used with a quantum of 8. *)

MaxLong == 10      \* elements of a long list

LongGaps == {0, 3}
LongQuanta == {4, 8}

RECURSIVE LongSeqs(_)
\* the non-decreasing sequences of n elements with steps from LongGaps
LongSeqs(n) ==
    IF n = 0 THEN {<< >>}
    ELSE {Append(s, (IF Len(s) = 0 THEN 0 ELSE s[Len(s)]) + g) :
             s \in LongSeqs(n - 1), g \in LongGaps}

\* a list of 17 elements: two index entries at a quantum of 8, one at 16
Seq17 == <<1, 1, 2, 5, 5, 9, 14, 15, 15, 21, 22, 30, 31, 31, 40, 47, 50>>

LongInputs ==
    UNION {{[S |-> S, lb |-> w[1], hb |-> w[2], Q |-> Q] :
               w \in EFWidths(S, MaxLb), Q \in LongQuanta} :
           S \in LongSeqs(MaxLong)}
    \cup {[S |-> Seq17, lb |-> w[1], hb |-> w[2], Q |-> Q] :
             w \in EFWidths(Seq17, MaxLb), Q \in {8, 16}}

InitLong ==
    /\ src \in {[kind |-> "ef", S |-> e.S, lb |-> e.lb, hb |-> e.hb, Q |-> e.Q] :
                   e \in LongInputs}
    /\ buf = EncodeEF(src.S, src.lb, src.hb, src.Q) \o <<255, 255>>
    /\ call = Idle
    /\ ret = NoRet
    /\ WalkIdle

SpecLong == InitLong /\ [][NextEF]_vars

-----------------------------------------------------------------------------
(* The loop of searchMonotonic and of searchPartition over index ranges a  *)
(* written list cannot reach: the parameters nP1 and nP2 are the loop's    *)
(* state, each iteration is a step, and the element the lookup returns at  *)
(* nMid is any of a few values around the one searched for.                *)

MaxSpan == 6       \* width of the index ranges searched

\* where the ranges lie: at 0, across 2^30 (the sum reaches bit 31), and
\* just below 2^31
SpanBases == {0, 2^30 - 3, (2^30 - 1) + (2^30 - MaxSpan)}

SearchOps == {"searchMonotonic", "searchPartition"}

\* the value searched for, and the elements a lookup may return
SearchedFor == U64(2)
Elements == {U64(1), U64(2), U64(3)}

InitMid ==
    /\ src = [kind |-> "range"]
    /\ buf = << >>
    /\ call = Idle
    /\ ret = NoRet
    /\ WalkIdle

\* the call: the arguments become the parameters nP1, nP2 and n
SearchCall ==
    \E op \in SearchOps, b \in SpanBases, d1 \in 0..MaxSpan, d2 \in 0..MaxSpan :
        /\ call = Idle
        /\ pc = "idle"
        /\ call' = [op |-> op, nP1 |-> b + d1, nP2 |-> b + d2, n |-> SearchedFor]
        /\ pc' = "loop"
        /\ UNCHANGED <<buf, src, ret, m_pbWord, m_nWordLen, nNodeOffset, nHdr,
                       nFragmentIndex, nLo, nHi, nOffsets>>

\* one iteration of while (1)
SearchStep ==
    /\ pc = "loop"
    /\ IF call.nP1 >= call.nP2
       THEN /\ ret' = NOT_FOUND
            /\ pc' = "done"
            /\ UNCHANGED call
       ELSE \E nThis \in Elements :
                LET nMid == midpoint(call.nP1, call.nP2)
                IN  IF nThis = call.n
                    THEN /\ ret' = U32(nMid)
                         /\ pc' = "done"
                         /\ UNCHANGED call
                    ELSE IF LGt(nThis, call.n)
                    THEN /\ call' = [call EXCEPT !.nP2 = nMid]
                         /\ UNCHANGED <<ret, pc>>
                    ELSE /\ call' = [call EXCEPT !.nP1 = nMid + 1]
                         /\ UNCHANGED <<ret, pc>>
    /\ UNCHANGED <<buf, src, m_pbWord, m_nWordLen, nNodeOffset, nHdr,
                   nFragmentIndex, nLo, nHi, nOffsets>>

\* the caller takes the result
SearchReturn ==
    /\ pc = "done"
    /\ call' = Idle
    /\ ret' = NoRet
    /\ pc' = "idle"
    /\ UNCHANGED <<buf, src, m_pbWord, m_nWordLen, nNodeOffset, nHdr,
                   nFragmentIndex, nLo, nHi, nOffsets>>

NextMid == SearchCall \/ SearchStep \/ SearchReturn

\* a started search runs on: the thread executes its next iteration
SpecMid == InitMid /\ [][NextMid]_vars /\ WF_vars(SearchStep)

-----------------------------------------------------------------------------
(* What the sections mean, read off the data itself.                       *)

\* bit p (LSB first) of the byte sequence mem
BitOf(mem, p) == (mem[(p \div 8) + 1] \div 2^(p % 8)) % 2

\* the position of the n-th set bit of mem
NthSetBit(mem, n) ==
    CHOOSE p \in 0..(8 * Len(mem) - 1) :
        /\ BitOf(mem, p) = 1
        /\ Cardinality({q \in 0..(p - 1) : BitOf(mem, q) = 1}) = n - 1

RECURSIVE BitsValue(_, _, _, _)
\* bits from..(to - 1) of the n bits of mem that start at bit nStart, as a
\* number whose bit 0 is bit from
BitsValue(mem, nStart, from, to) ==
    IF from >= to THEN 0
    ELSE BitOf(mem, nStart + from) + 2 * BitsValue(mem, nStart, from + 1, to)

\* the n bits of mem from bit nStart, right-justified in a UINT32
BitsAt(mem, nStart, n) ==
    <<BitsValue(mem, nStart, 0, IF n < 16 THEN n ELSE 16),
      BitsValue(mem, nStart, 16, n)>>

\* the value inserted for word w, NOT_FOUND if w was not inserted
ValueOf(items, w) ==
    IF \E it \in items : it[1] = w
    THEN U32((CHOOSE it \in items : it[1] = w)[2])
    ELSE NOT_FOUND

\* the indices of [nP1, nP2) at which S holds x
Hits(S, nP1, nP2, x) == {j \in nP1..(nP2 - 1) : S[j + 1] = x}

-----------------------------------------------------------------------------
(* The properties.                                                         *)

\* C1: a finished mapping() of a word returns the value the word was
\* inserted with, and 0xFFFFFFFF for every word that was not inserted: an
\* interim prefix, a word ending inside a fragment, a word running past a
\* childless node, the empty word under an interim root.
C1_TrieExact ==
    pc = "done" => ret = ValueOf(src.items, call.word)

\* a lookup of the scenario T1 that descended three levels and found "abd"
C1_Witness ==
    /\ pc = "done"
    /\ src.items = T1Items
    /\ call.word = <<1, 2, 4>>
    /\ nFragmentIndex = 3
    /\ ret = U32(4)

\* C2: lookupMonotonic(E(S), Q, i) returns v_i for every i and every
\* quantum Q that is a power of two up to n.
C2_EFRoundTrip ==
    call.op = "lookupMonotonic" => ret = U64(src.S[call.nIndex + 1])

\* C3: lookupPairMonotonic(E(S), Q, i) writes (v_i, v_i+1), the results of
\* lookupMonotonic at i and at i + 1.
C3_PairConsistent ==
    call.op = "lookupPairMonotonic" =>
        /\ ret = <<U64(src.S[call.nIndex + 1]), U64(src.S[call.nIndex + 2])>>
        /\ ret = <<lookupMonotonic(buf, 0, src.Q, call.nIndex),
                   lookupMonotonic(buf, 0, src.Q, call.nIndex + 1)>>

\* C4: lookupPartition(P(S), Qo, Qi, i) returns v_i for every i.
C4_PartitionLookup ==
    call.op = "lookupPartition" => ret = U64(src.S[call.nIndex + 1])

\* C5: lookupPairPartition at i writes what lookupPartition returns at i
\* and at i + 1, whether or not i is the last slot of its chunk.
C5_PairPartition ==
    call.op = "lookupPairPartition" =>
        ret = <<lookupPartition(buf, 0, src.Qo, src.Qi, call.nIndex),
                lookupPartition(buf, 0, src.Qo, src.Qi, call.nIndex + 1)>>

\* C6: searchMonotonic over [lo, hi) returns an index in the range holding
\* x when there is one, and 0xFFFFFFFF when there is none.
C6_SearchCorrect ==
    call.op = "searchMonotonic" =>
        LET hits == Hits(src.S, call.nP1, call.nP2, call.x)
        IN  IF hits = {} THEN ret = NOT_FOUND
            ELSE \E j \in hits : ret = U32(j)

\* C7: a prefix search for x - v_(lo-1) returns what the plain search for x
\* returns over the same range, for both kinds of list.
C7_PrefixEquivalent ==
    /\ call.op = "searchMonotonicPrefix" =>
           ret = searchMonotonic(buf, 0, src.Q, call.nP1, call.nP2, U64(call.x))
    /\ call.op = "searchPartitionPrefix" =>
           ret = searchPartition(buf, 0, src.Qo, src.Qi, call.nP1, call.nP2,
                                 U64(call.x))

\* C8: lookupFrequency at i returns rankTable[cw - 2 + 2^w] for the i-th
\* codeword (cw, w), for every quantum.
C8_FreqRoundTrip ==
    call.op = "lookupFrequency" =>
        LET k == src.ks[call.nIndex + 1]
        IN  ret = RankTable[(CwValue(k) - 2 + 2^CwWidth(k)) + 1]

\* a lookup past a quantum skip whose byte scan starts in a byte before the
\* one that holds the start bit of the codeword
C8_Witness ==
    /\ call.op = "lookupFrequency"
    /\ call.nIndex >= src.Q
    /\ LET pStart == Len(buf) - Len(PackBits(FreqStartBits(src.ks)))
           k == freqSkip(buf, 2 * (Len(RankTable) + 1) + 4, pStart, src.Q, call.nIndex)
       IN  /\ k[1] < pStart + CwStart(src.ks, call.nIndex) \div 8
           /\ freqScan(buf, k[1], k[2])[1] < pStart + CwStart(src.ks, call.nIndex) \div 8
    /\ ret = RankTable[src.ks[call.nIndex + 1] + 1]

\* C9: bitselect(buf, j) is the position of the j-th set bit, and retrieve
\* of one bit at the position of a set bit is 1.
C9_BitselectRetrieve ==
    /\ call.op = "bitselect" =>
           /\ ret = NthSetBit(buf, call.n)
           /\ \A ub \in UB_SHIFT : retrieve(buf, 0, ret, 1, ub) = U32(1)
    /\ (call.op = "retrieve" /\ BitOf(buf, call.nStart) = 1) => ret = U32(1)

\* a set bit found two bytes after the set bit before it
C9_Witness ==
    /\ call.op = "bitselect"
    /\ call.n > 1
    /\ ret = NthSetBit(buf, call.n)
    /\ ret \div 8 > (NthSetBit(buf, call.n - 1) \div 8) + 1

\* C10: retrieve(buf, start, n) returns bits start..start+n-1 of buf,
\* right-justified, for every n from 0 to 32.
C10_RetrieveBits ==
    call.op = "retrieve" => ret = BitsAt(buf, call.nStart, call.n)

\* C11: a finished mapping() returns 0xFFFFFFFF or a value in
\* [0, 0x7FFFFE]: the low 23 bits of the header of the node reached when
\* the whole word was consumed there and those bits are not 0x7FFFFF, and
\* 0xFFFFFFFF in every other case.
C11_Sentinel ==
    pc = "done" =>
        LET hdr == uintAt(buf, nNodeOffset)
            low23 == <<hdr[1], hdr[2] % 2^7>>
        IN  /\ ret = NOT_FOUND \/ (ret[2] < 2^7 /\ ret # <<2^16 - 1, 2^7 - 1>>)
            /\ ret = (IF nFragmentIndex = m_nWordLen /\ low23 # <<2^16 - 1, 2^7 - 1>>
                      THEN low23 ELSE NOT_FOUND)

\* the largest value, 0x7FFFFE, is returned from a node below the root
C11_Witness ==
    /\ pc = "done"
    /\ ret = U32(2^23 - 2)
    /\ nFragmentIndex = m_nWordLen
    /\ nNodeOffset # U32At(buf, 16)

\* C12: interleaved calls of mapping() on one buffer each return what the
\* call returns alone, the value of its own word or 0xFFFFFFFF, and the
\* buffer stays as the writer left it.
C12_NoInterference ==
    /\ buf = EncodeTrie(src.items)
    /\ \A t \in Threads :
           pc[t] = "done" => ret[t] = ValueOf(src.items, call[t].word)

\* two overlapping calls with different words are both finished: one found
\* its word and the other did not
C12_Witness ==
    /\ pc[1] = "done"
    /\ pc[2] = "done"
    /\ call[1].word = <<1, 2, 4>>
    /\ call[2].word = <<1, 2, 5>>
    /\ ret[1] = U32(4)
    /\ ret[2] = NOT_FOUND

\* C13: in a walk the consumed-byte counter never exceeds the length of
\* the word, every descent into a child adds at least 1 to it, every other
\* step of the child search shrinks hi - lo, and every call finishes.
C13_WalkProgress ==
    /\ [](pc # "idle" => nFragmentIndex <= m_nWordLen)
    /\ [][(pc = "search" /\ pc' = "top") =>
             /\ nFragmentIndex' >= nFragmentIndex + 1
             /\ nFragmentIndex' <= m_nWordLen]_vars
    /\ [][(pc = "search" /\ pc' = "search") => nHi' - nLo' < nHi - nLo]_vars
    /\ (pc = "top") ~> (pc = "done")

\* a walk whose child search moved its lower bound past two siblings before
\* it descended and consumed the word
C13_Witness ==
    /\ pc = "done"
    /\ call.word = <<127>>
    /\ nLo = 2
    /\ nHi = 3
    /\ nFragmentIndex = m_nWordLen
    /\ ret = U32(2^22)

\* C14 as stated: lookupFrequency steps past numRanks + 1 16-bit table
\* entries after the 16-bit numRanks field, so the count m is read at byte
\* 2 + 2 * (numRanks + 1), cwBytes 4 * (1 + m) bytes after that, and
\* startBits begins 4 + cwBytes bytes after the cwBytes field.
C14_LayoutAsStated ==
    call.op = "lookupFrequency" =>
        LET o == freqOffsets(buf, 0)
            numRanks == U16At(buf, 0)
        IN  /\ o.pnIndex = 2 + 2 * (numRanks + 1)
            /\ o.pCw = o.pnIndex + 4 * (1 + U32At(buf, o.pnIndex))
            /\ o.pStart = o.pCw + 4 + U32At(buf, o.pCw)

\* C14, amended: lookupFrequency steps past numRanks 16-bit table entries
\* after the 16-bit numRanks field, so the count m is read at byte
\* 2 + 2 * numRanks, cwBytes 4 * (1 + m) bytes after that, and startBits
\* begins 4 + cwBytes bytes after the cwBytes field; on a written section
\* these are the written count, the written size and the start-bit stream.
C14_FreqLayout ==
    LET o == freqOffsets(buf, 0)
        numRanks == U16At(buf, 0)
        m == U32At(buf, o.pnIndex)
        cwBytes == U32At(buf, o.pCw)
    IN  /\ o.pnIndex = 2 + 2 * numRanks
        /\ o.pCw = o.pnIndex + 4 * (1 + m)
        /\ o.pStart = o.pCw + 4 + cwBytes
        /\ m = (Len(src.ks) - 1) \div src.Q
        /\ cwBytes = Len(PackBits(FreqCwBits(src.ks)))
        /\ Len(buf) - o.pStart = Len(PackBits(FreqStartBits(src.ks)))

\* a lookup on a section with a non-empty quantum index and two bytes of
\* codewords
C14_Witness ==
    /\ call.op = "lookupFrequency"
    /\ U16At(buf, 0) = Len(RankTable)
    /\ freqOffsets(buf, 0).pnIndex = 16
    /\ U32At(buf, 16) = 3
    /\ freqOffsets(buf, 0).pCw = 32
    /\ freqOffsets(buf, 0).pStart = 38
    /\ ret = RankTable[src.ks[call.nIndex + 1] + 1]

\* C15: for nP1 < nP2 below 2^31 the midpoint of searchMonotonic and
\* searchPartition, computed modulo 2^32, lies in [nP1, nP2); every
\* iteration that does not return shrinks the range within itself; a search
\* returns the midpoint of its last range or 0xFFFFFFFF; and every search
\* returns.
C15_MidpointSafe ==
    /\ [](pc = "loop" /\ call.nP1 < call.nP2 =>
             /\ call.nP1 <= midpoint(call.nP1, call.nP2)
             /\ midpoint(call.nP1, call.nP2) < call.nP2)
    /\ [][(pc = "loop" /\ pc' = "loop") =>
             /\ call.nP1 <= call'.nP1
             /\ call'.nP2 <= call.nP2
             /\ call'.nP2 - call'.nP1 < call.nP2 - call.nP1]_vars
    /\ [][(pc = "loop" /\ pc' = "done") =>
             \/ ret' = NOT_FOUND /\ call.nP1 >= call.nP2
             \/ /\ call.nP1 < call.nP2
                /\ LNat(ret') >= call.nP1
                /\ LNat(ret') < call.nP2
                /\ ret' = U32(midpoint(call.nP1, call.nP2))]_vars
    /\ (pc = "loop") ~> (pc = "done")

\* a search of a range just below 2^31 that returned its midpoint, the sum
\* nP1 + nP2 needing all 32 bits
C15_Witness ==
    /\ pc = "done"
    /\ call.nP1 = (2^30 - 1) + (2^30 - MaxSpan) + 2
    /\ call.nP2 = (2^30 - 1) + (2^30 - 2)
    /\ ret = <<2^16 - 4, 2^15 - 1>>

\* the zeroes before the n-th 1-bit (n from 1) of the high-bits stream of
\* the list in mem
ZeroesBefore(mem, Q, n) ==
    LET h == monoHeader(mem, 0, Q)
        nHigh == h.pb + (h.n * h.nLb + 7) \div 8
    IN  NthSetBit(SubSeq(mem, nHigh + 1, Len(mem)), n) - (n - 1)

\* the initial high count of a lookup at nIndex is the natural number
\* (hbufIdx[q-1] & ~7) - q * Q, hbufIdx[q-1] being at least q * Q
NoWrap(mem, Q, nIndex) ==
    LET h == monoHeader(mem, 0, Q)
        nQ == nIndex \div Q
        nHbit == U32At(mem, 8 + 4 * (nQ - 1))
    IN  /\ nHbit >= nQ * Q
        /\ nHbit - (nHbit % 8) >= nQ * Q
        /\ highStart(mem, 0, h, Q, nIndex).nHighPart
               = U64((nHbit - (nHbit % 8)) - nQ * Q)

\* the UINT64 v is high * 2^lb + low with low below 2^lb, and has no bit at
\* or above position lb + hb
HighPartIs(v, high, lb, hb) ==
    /\ v[2] = 0 /\ v[3] = 0 /\ v[4] = 0
    /\ v[1] \div 2^lb = high
    /\ v[1] < 2^(lb + hb)

\* C16: on a written list with a quantum that is a multiple of 8, a lookup
\* that uses the quantum index starts from a high count that did not wrap,
\* and the high part of what lookupMonotonic and lookupPairMonotonic return
\* is the number of zeroes before the element's 1-bit, with no bit at or
\* above position lb + hb.
C16_NoWrapAligned ==
    (src.Q % 8 = 0 /\ src.hb # 0 /\ call # Idle /\ call.nIndex >= src.Q) =>
        /\ NoWrap(buf, src.Q, call.nIndex)
        /\ call.op = "lookupMonotonic" =>
               /\ HighPartIs(ret, ZeroesBefore(buf, src.Q, call.nIndex + 1),
                             src.lb, src.hb)
               /\ ret = U64(src.S[call.nIndex + 1])
        /\ call.op = "lookupPairMonotonic" =>
               /\ HighPartIs(ret[1], ZeroesBefore(buf, src.Q, call.nIndex + 1),
                             src.lb, src.hb)
               /\ HighPartIs(ret[2], ZeroesBefore(buf, src.Q, call.nIndex + 2),
                             src.lb, src.hb)
               /\ ret = <<U64(src.S[call.nIndex + 1]), U64(src.S[call.nIndex + 2])>>

\* a lookup through the second index entry of a list with a quantum of 8,
\* the entry pointing into the middle of a byte
C16_Witness ==
    /\ src.S = Seq17
    /\ src.Q = 8
    /\ src.lb = 1
    /\ call.op = "lookupMonotonic"
    /\ call.nIndex = 16
    /\ U32At(buf, 12) % 8 # 0
    /\ U32At(buf, 12) - (U32At(buf, 12) % 8) > 16
    /\ ret = U64(50)

====
